---------------------------- MODULE Spec2Model ----------------------------
(***************************************************************************)
(* Model of the property binding engine of                                 *)
(* sixtyfps_runtime/corelib/abi/properties.rs.                             *)
(*                                                                         *)
(* A Property is a handle (Rc<RefCell<PropertyImpl>>) plus a value.  The   *)
(* model keeps, for every property of the test Component (width, height,   *)
(* area), the three fields of PropertyImpl, the value, and whether the     *)
(* handle still exists.  The thread local CURRENT_BINDING and the call     *)
(* stack of binding evaluations in progress are part of the state: a read  *)
(* of a dirty property runs its binding, which reads other properties.     *)
(*                                                                         *)
(* Option<T> is modelled as a set with at most one element: None is {}     *)
(* and Some(x) is {x}.                                                     *)
(***************************************************************************)
EXTENDS Integers, Sequences, FiniteSets, TLC

\* Bound of the model: a top-level read is issued only while every
\* dependencies vector is shorter than this.
MaxDeps == 2

\* Bound of the model: the ghost count of evaluations of an installed binding
\* saturates here.
MaxEvals == 2

\* Bound of the model: where the user_data of the bindings is followed, at
\* most this many bindings are installed on one handle.
MaxInstalls == 2

\* The properties of the test Component.
Cells == {"width", "height", "area"}

\* The values the callers write.
Vals == {4, 8}

None == {}

Some(x) == {x}

\* The value held by an Option that is Some.
Unwrap(o) == CHOOSE x \in o : TRUE

\* The binding closures the callers install.  A closure reads the properties
\* `reads` in order, through get, and returns k times the product of what it
\* read.
ConstBinding == [reads |-> <<>>, k |-> 4]

HeightTimes2 == [reads |-> <<"height">>, k |-> 2]

WidthTimesHeight == [reads |-> <<"width", "height">>, k |-> 1]

WidthOnly == [reads |-> <<"width">>, k |-> 1]

Bindings == {ConstBinding, HeightTimes2, WidthTimesHeight, WidthOnly}

\* The closures the callers install on each property: those of
\* properties_simple_test (area = width * height, width = height * 2), a
\* chain (area = width), a constant, and the two that close a cycle
\* (width = width, and height = width with width = height * 2).
Installs ==
    {<<"area", WidthTimesHeight>>, <<"area", WidthOnly>>,
     <<"area", ConstBinding>>,
     <<"width", HeightTimes2>>, <<"width", WidthOnly>>,
     <<"height", ConstBinding>>, <<"height", WidthOnly>>}

\* The panic messages.
CircularMsg == "Circular dependency in binding evaluation"

BorrowMsg == "already mutably borrowed: BorrowError"

NoFailure == "none"

VARIABLES
    binding,         \* PropertyImpl.binding: Option of a binding closure
    dependencies,    \* PropertyImpl.dependencies: Vec<Weak<dyn PropertyNotify>>
    dirty,           \* PropertyImpl.dirty
    value,           \* Property.value
    handle,          \* TRUE while the PropertyHandle has not been dropped
    CURRENT_BINDING, \* the thread local: Option of the property being evaluated
    stack,           \* the evaluations in progress, innermost last
    failure,         \* the message of the panic that ended the last operation
    result,          \* Option: what the last top-level read returned
    last,            \* the last top-level operation: [op, cell]
    invoked,         \* ghost: binding invocations per property in that operation
    evals,           \* ghost: invocations of the installed binding, saturating
    swept,           \* ghost: calls of mark_dirty in the last operation
    written,         \* ghost: Option of the value written since the last bind
    reach,           \* ghost: what the last sweep could reach when it started
    seen,            \* ghost: per property, Option of its last read and what
                     \* was written since (kept by SpecHist only)
    user_data,       \* ghost: per handle, the bindings installed with a
                     \* destructor and the calls of drop_user_data (kept by
                     \* SpecOwned only)
    traced,          \* ghost: per property, `by`: the properties whose
                     \* evaluation read it since its dependencies were last
                     \* swept, and `of`: what its own latest evaluation read
                     \* (kept by SpecTrace only)
    swept_from       \* ghost: the dependencies when the last sweep started
                     \* (kept by SpecUnwind only)

vars == <<binding, dependencies, dirty, value, handle, CURRENT_BINDING, stack,
          failure, result, last, invoked, evals, swept, written,
          reach, seen, user_data, traced, swept_from>>

\* The ghosts that only some of the specifications keep.
ghosts == <<seen, user_data, traced, swept_from>>

-----------------------------------------------------------------------------
(* PropertyNotify *)

\* Weak::upgrade succeeds while some Rc to the property exists: its handle,
\* or the thread local (which holds a strong reference).
Upgrades(c) == handle[c] \/ c \in CURRENT_BINDING

RECURSIVE mark_dirty(_, _)
RECURSIVE mark_dirty_each(_, _, _)

\* mark_dirty returning at once from a property that is already dirty.
mark_dirty_guarded(st, c) ==
    IF st.dirty[c] THEN [st EXCEPT !.calls = @ + 1]
    ELSE mark_dirty_each([dirty |-> [st.dirty EXCEPT ![c] = TRUE],
                          dependencies |-> [st.dependencies EXCEPT ![c] = <<>>],
                          calls |-> st.calls + 1],
                         st.dependencies[c], 1)

\* mark_dirty with the recursion lost: the direct dependencies only.
mark_dirty_shallow(st, c) ==
    [dirty |-> [d \in Cells |->
                   \/ st.dirty[d] \/ d = c
                   \/ \E i \in DOMAIN st.dependencies[c] :
                          st.dependencies[c][i] = d],
     dependencies |-> [st.dependencies EXCEPT ![c] = <<>>],
     calls |-> st.calls + 1]

\* The loop of mark_dirty calling mark_dirty on every entry, with no upgrade.
mark_dirty_each_no_upgrade(st, v, i) ==
    IF i > Len(v) THEN st
    ELSE mark_dirty_each(mark_dirty(st, v[i]), v, i + 1)

\* The loop of mark_dirty stopping one entry short of the end of v.
mark_dirty_each_short(st, v, i) ==
    IF i >= Len(v) THEN st
    ELSE mark_dirty_each(IF Upgrades(v[i]) THEN mark_dirty(st, v[i]) ELSE st,
                         v, i + 1)

\* for d in &v { if let Some(d) = d.upgrade() { d.mark_dirty() } }
mark_dirty_each(st, v, i) ==
    IF i > Len(v) THEN st
    ELSE mark_dirty_each(IF Upgrades(v[i]) THEN mark_dirty(st, v[i]) ELSE st,
                         v, i + 1)

\* st is [dirty, dependencies, calls]; calls counts the calls of mark_dirty.
mark_dirty(st, c) ==
    mark_dirty_each([dirty |-> [st.dirty EXCEPT ![c] = TRUE],
                     dependencies |-> [st.dependencies EXCEPT ![c] = <<>>],
                     calls |-> st.calls + 1],
                    st.dependencies[c], 1)

\* The properties in the dependencies of those of S that still upgrade.
Dependents(S) ==
    {d \in Cells :
        /\ Upgrades(d)
        /\ \E c \in S : \E i \in DOMAIN dependencies[c] :
               dependencies[c][i] = d}

RECURSIVE DependentsClosure(_)

DependentsClosure(S) ==
    LET T == S \cup Dependents(S)
    IN IF T = S THEN S ELSE DependentsClosure(T)

\* The live properties reachable from c through dependencies vectors, c
\* included.
Reach(c) == DependentsClosure({c})

\* register_current_binding_as_dependency with the push lost.
register_nothing(deps, c, cur) == deps

\* register_current_binding_as_dependency pushing a reference to the
\* property itself instead of the occupant of the thread local.
register_self_as_dependency(deps, c, cur) ==
    IF cur # None THEN [deps EXCEPT ![c] = Append(@, c)] ELSE deps

\* The dependencies after c registered the occupant of the thread local.
register_current_binding_as_dependency(deps, c, cur) ==
    IF cur # None THEN [deps EXCEPT ![c] = Append(@, Unwrap(cur))] ELSE deps

-----------------------------------------------------------------------------
(* Property *)

\* The RefCell of c is mutably borrowed: `lock` of an update in progress.
Borrowed(c) == \E i \in DOMAIN stack : stack[i].cell = c

Zero == [c \in Cells |-> 0]

Bump(n) == IF n < MaxEvals THEN n + 1 ELSE n

Init ==
    /\ binding = [c \in Cells |-> None]
    /\ dependencies = [c \in Cells |-> <<>>]
    /\ dirty = [c \in Cells |-> FALSE]
    /\ value = [c \in Cells |-> 0]
    /\ handle = [c \in Cells |-> TRUE]
    /\ CURRENT_BINDING = None
    /\ stack = <<>>
    /\ failure = NoFailure
    /\ result = None
    /\ last = [op |-> "init", cell |-> "width"]
    /\ invoked = Zero
    /\ evals = Zero
    /\ swept = 0
    /\ written = [c \in Cells |-> None]
    /\ reach = {}
    /\ seen = [c \in Cells |-> None]
    /\ user_data = [c \in Cells |-> [installed |-> 0, destroyed |-> 0]]
    /\ traced = [c \in Cells |-> [by |-> {}, of |-> {}]]
    /\ swept_from = [c \in Cells |-> <<>>]

\* No operation is in progress and the last one did not panic.
Idle == stack = <<>> /\ failure = NoFailure

\* set with `lock.binding = None` lost.
set_keeps_binding(c, t) ==
    /\ Idle /\ handle[c]
    /\ LET st == mark_dirty([dirty |-> [dirty EXCEPT ![c] = FALSE],
                             dependencies |-> dependencies, calls |-> 0], c)
       IN /\ dirty' = [st.dirty EXCEPT ![c] = FALSE]
          /\ dependencies' = st.dependencies
          /\ swept' = st.calls
          /\ reach' = Reach(c)
    /\ value' = [value EXCEPT ![c] = t]
    /\ written' = [written EXCEPT ![c] = Some(t)]
    /\ last' = [op |-> "set", cell |-> c]
    /\ invoked' = Zero
    /\ evals' = [evals EXCEPT ![c] = 0]
    /\ result' = None
    /\ UNCHANGED <<binding, handle, CURRENT_BINDING, stack, failure>>

\* What set does to the state, the record of the call in `last` apart.
set_effect(c, t) ==
    /\ Idle /\ handle[c]
    /\ LET st == mark_dirty([dirty |-> [dirty EXCEPT ![c] = FALSE],
                             dependencies |-> dependencies, calls |-> 0], c)
       IN /\ dirty' = [st.dirty EXCEPT ![c] = FALSE]
          /\ dependencies' = st.dependencies
          /\ swept' = st.calls
          /\ reach' = Reach(c)
    /\ binding' = [binding EXCEPT ![c] = None]
    /\ value' = [value EXCEPT ![c] = t]
    /\ written' = [written EXCEPT ![c] = Some(t)]
    /\ invoked' = Zero
    /\ evals' = [evals EXCEPT ![c] = 0]
    /\ result' = None
    /\ UNCHANGED <<handle, CURRENT_BINDING, stack, failure>>

\* Property::set
set(c, t) ==
    /\ set_effect(c, t)
    /\ last' = [op |-> "set", cell |-> c]

\* set_binding with the call of mark_dirty replaced by `dirty = true`.
set_binding_no_sweep(c, b) ==
    /\ Idle /\ handle[c]
    /\ <<c, b>> \in Installs
    /\ \A i \in DOMAIN b.reads : handle[b.reads[i]]
    /\ dirty' = [dirty EXCEPT ![c] = TRUE]
    /\ swept' = 0
    /\ reach' = {}
    /\ binding' = [binding EXCEPT ![c] = Some(b)]
    /\ written' = [written EXCEPT ![c] = None]
    /\ last' = [op |-> "set_binding", cell |-> c]
    /\ invoked' = Zero
    /\ evals' = [evals EXCEPT ![c] = 0]
    /\ result' = None
    /\ UNCHANGED <<value, dependencies, handle, CURRENT_BINDING, stack,
                   failure>>

\* set_binding evaluating the closure at once instead of on the next get.
set_binding_eager(c, b) ==
    /\ Idle /\ handle[c]
    /\ <<c, b>> \in Installs
    /\ \A i \in DOMAIN b.reads : handle[b.reads[i]]
    /\ LET st == mark_dirty([dirty |-> dirty, dependencies |-> dependencies,
                             calls |-> 0], c)
       IN /\ dirty' = st.dirty
          /\ dependencies' = st.dependencies
          /\ swept' = st.calls
          /\ reach' = Reach(c)
    /\ binding' = [binding EXCEPT ![c] = Some(b)]
    /\ written' = [written EXCEPT ![c] = None]
    /\ last' = [op |-> "set_binding", cell |-> c]
    /\ stack' = <<[cell |-> c, idx |-> 1, acc |-> b.k,
                   old |-> CURRENT_BINDING]>>
    /\ CURRENT_BINDING' = Some(c)
    /\ invoked' = [Zero EXCEPT ![c] = 1]
    /\ evals' = [evals EXCEPT ![c] = 1]
    /\ result' = None
    /\ UNCHANGED <<value, handle, failure>>

\* set_binding leaving the dirty flag of the property itself as it was.
set_binding_stays_clean(c, b) ==
    /\ Idle /\ handle[c]
    /\ <<c, b>> \in Installs
    /\ \A i \in DOMAIN b.reads : handle[b.reads[i]]
    /\ LET st == mark_dirty([dirty |-> dirty, dependencies |-> dependencies,
                             calls |-> 0], c)
       IN /\ dirty' = [st.dirty EXCEPT ![c] = dirty[c]]
          /\ dependencies' = st.dependencies
          /\ swept' = st.calls
          /\ reach' = Reach(c)
    /\ binding' = [binding EXCEPT ![c] = Some(b)]
    /\ written' = [written EXCEPT ![c] = None]
    /\ last' = [op |-> "set_binding", cell |-> c]
    /\ invoked' = Zero
    /\ evals' = [evals EXCEPT ![c] = 0]
    /\ result' = None
    /\ UNCHANGED <<value, handle, CURRENT_BINDING, stack, failure>>

\* What set_binding does to the state, the record of the call in `last` apart.
set_binding_effect(c, b) ==
    /\ Idle /\ handle[c]
    /\ <<c, b>> \in Installs
    /\ \A i \in DOMAIN b.reads : handle[b.reads[i]]
    /\ LET st == mark_dirty([dirty |-> dirty, dependencies |-> dependencies,
                             calls |-> 0], c)
       IN /\ dirty' = st.dirty
          /\ dependencies' = st.dependencies
          /\ swept' = st.calls
          /\ reach' = Reach(c)
    /\ binding' = [binding EXCEPT ![c] = Some(b)]
    /\ written' = [written EXCEPT ![c] = None]
    /\ invoked' = Zero
    /\ evals' = [evals EXCEPT ![c] = 0]
    /\ result' = None
    /\ UNCHANGED <<value, handle, CURRENT_BINDING, stack, failure>>

\* Property::set_binding
set_binding(c, b) ==
    /\ set_binding_effect(c, b)
    /\ last' = [op |-> "set_binding", cell |-> c]

\* update with the early return of a property that is not dirty lost.
update_outcome_no_return(c) ==
    IF Borrowed(c) THEN BorrowMsg
    ELSE IF binding[c] = None THEN "return"
    ELSE "evaluate"

\* update without either borrow check.
update_outcome_unchecked(c) ==
    IF ~dirty[c] THEN "return"
    ELSE IF binding[c] = None THEN "return"
    ELSE "evaluate"

\* What Property::update does with c before it runs the binding: it panics,
\* returns at once, or evaluates.
update_outcome(c) ==
    IF Borrowed(c) THEN BorrowMsg
    ELSE IF ~dirty[c] THEN "return"
    ELSE IF Borrowed(c) THEN CircularMsg
    ELSE IF binding[c] = None THEN "return"
    ELSE "evaluate"

\* The same for sixtyfps_property_update.
sixtyfps_property_update_outcome(c) ==
    IF Borrowed(c) THEN BorrowMsg
    ELSE IF ~dirty[c] THEN "return"
    ELSE IF Borrowed(c) THEN CircularMsg
    ELSE IF binding[c] = None THEN "return"
    ELSE "evaluate"

\* The stack after the caller received v from the read it made: the binding
\* on top multiplies it into its product and goes on to its next read.
Deliver(stk, v) ==
    IF stk = <<>> THEN stk
    ELSE [stk EXCEPT ![Len(stk)] = [@ EXCEPT !.acc = @ * v, !.idx = @ + 1]]

\* A read of c, by the caller (the stack is empty) or by the binding on top
\* of the stack, up to the point where c's binding starts to run.  inv is the
\* invocation count before the read.
Read(c, out, inv) ==
    IF out = "return"
    THEN /\ dependencies' =
                register_current_binding_as_dependency(dependencies, c,
                                                       CURRENT_BINDING)
         /\ stack' = Deliver(stack, value[c])
         /\ result' = IF stack = <<>> THEN Some(value[c]) ELSE None
         /\ invoked' = inv
         /\ UNCHANGED <<CURRENT_BINDING, failure, evals>>
    ELSE IF out = "evaluate"
    THEN /\ stack' = Append(stack, [cell |-> c, idx |-> 1,
                                    acc |-> Unwrap(binding[c]).k,
                                    old |-> CURRENT_BINDING])
         /\ CURRENT_BINDING' = Some(c)
         /\ invoked' = [inv EXCEPT ![c] = @ + 1]
         /\ evals' = [evals EXCEPT ![c] = Bump(@)]
         /\ result' = None
         /\ UNCHANGED <<dependencies, failure>>
    ELSE /\ failure' = out
         /\ stack' = <<>>
         /\ result' = None
         /\ invoked' = inv
         /\ UNCHANGED <<dependencies, CURRENT_BINDING, evals>>

\* The dependencies vectors are within the bound of the model.
Bounded == \A c \in Cells : Len(dependencies[c]) < MaxDeps

\* What get does to the state, the record of the call in `last` apart.
get_effect(c) ==
    /\ Idle /\ handle[c] /\ Bounded
    /\ Read(c, update_outcome(c), Zero)
    /\ swept' = 0
    /\ reach' = {}
    /\ UNCHANGED written
    /\ UNCHANGED <<binding, dirty, value, handle>>

\* Property::get, called by the owner of the component.
get(c) ==
    /\ get_effect(c)
    /\ last' = [op |-> "get", cell |-> c]

\* What sixtyfps_property_update does to the state, the record of the call in `last` apart.
sixtyfps_property_update_effect(c) ==
    /\ Idle /\ handle[c] /\ Bounded
    /\ Read(c, sixtyfps_property_update_outcome(c), Zero)
    /\ swept' = 0
    /\ reach' = {}
    /\ UNCHANGED written
    /\ UNCHANGED <<binding, dirty, value, handle>>

\* sixtyfps_property_update, called by the owner of the component.
sixtyfps_property_update(c) ==
    /\ sixtyfps_property_update_effect(c)
    /\ last' = [op |-> "sixtyfps_property_update", cell |-> c]

\* The evaluation on top of the stack.
Top == stack[Len(stack)]

\* Binding::evaluate, one read: the binding on top of the stack reads the next
\* property of its closure.
evaluate ==
    /\ stack # <<>>
    /\ Top.idx <= Len(Unwrap(binding[Top.cell]).reads)
    /\ LET c == Unwrap(binding[Top.cell]).reads[Top.idx]
       IN Read(c, IF last.op = "get" THEN update_outcome(c)
                  ELSE sixtyfps_property_update_outcome(c), invoked)
    /\ UNCHANGED <<binding, dirty, value, handle, last, swept, written,
                   reach>>

\* update_finish with the value of the closure stored through the pointer
\* of the property that made the read instead of its own.
update_finish_wrong_pointer ==
    /\ stack # <<>>
    /\ Top.idx > Len(Unwrap(binding[Top.cell]).reads)
    /\ LET f == Top
           rest == SubSeq(stack, 1, Len(stack) - 1)
           to == IF f.old = None THEN f.cell ELSE Unwrap(f.old)
       IN /\ value' = [value EXCEPT ![to] = f.acc]
          /\ dirty' = [dirty EXCEPT ![f.cell] = FALSE]
          /\ CURRENT_BINDING' = f.old
          /\ dependencies' =
                 register_current_binding_as_dependency(dependencies, f.cell,
                                                        f.old)
          /\ stack' = Deliver(rest, f.acc)
          /\ result' = IF rest = <<>> THEN Some(f.acc) ELSE None
    /\ UNCHANGED <<binding, handle, failure, last, invoked, evals, swept,
                   written, reach>>

\* update_finish with `lock.dirty = false` lost.
update_finish_keeps_dirty ==
    /\ stack # <<>>
    /\ Top.idx > Len(Unwrap(binding[Top.cell]).reads)
    /\ LET f == Top
           rest == SubSeq(stack, 1, Len(stack) - 1)
       IN /\ value' = [value EXCEPT ![f.cell] = f.acc]
          /\ CURRENT_BINDING' = f.old
          /\ dependencies' =
                 register_current_binding_as_dependency(dependencies, f.cell,
                                                        f.old)
          /\ stack' = Deliver(rest, f.acc)
          /\ result' = IF rest = <<>> THEN Some(f.acc) ELSE None
    /\ UNCHANGED <<binding, dirty, handle, failure, last, invoked, evals,
                   swept, written, reach>>

\* The binding on top of the stack returns: update stores its value, clears
\* dirty and puts the thread local back; the read then registers the
\* occupant of the thread local and returns the value to its caller.
update_finish ==
    /\ stack # <<>>
    /\ Top.idx > Len(Unwrap(binding[Top.cell]).reads)
    /\ LET f == Top
           rest == SubSeq(stack, 1, Len(stack) - 1)
       IN /\ value' = [value EXCEPT ![f.cell] = f.acc]
          /\ dirty' = [dirty EXCEPT ![f.cell] = FALSE]
          /\ CURRENT_BINDING' = f.old
          /\ dependencies' =
                 register_current_binding_as_dependency(dependencies, f.cell,
                                                        f.old)
          /\ stack' = Deliver(rest, f.acc)
          /\ result' = IF rest = <<>> THEN Some(f.acc) ELSE None
    /\ UNCHANGED <<binding, handle, failure, last, invoked, evals, swept,
                   written, reach>>

\* The panic was caught (catch_unwind, or the test harness): the thread goes
\* on with the state the unwinding left.
recover ==
    /\ failure # NoFailure
    /\ failure' = NoFailure
    /\ UNCHANGED <<binding, dependencies, dirty, value, handle,
                   CURRENT_BINDING, stack, result, last, invoked, evals,
                   swept, written, reach>>

\* sixtyfps_property_set_changed with `binding = None` lost.
sixtyfps_property_set_changed_keeps_binding(c, t) ==
    /\ Idle /\ handle[c]
    /\ LET st == mark_dirty([dirty |-> dirty, dependencies |-> dependencies,
                             calls |-> 0], c)
       IN /\ dirty' = [st.dirty EXCEPT ![c] = FALSE]
          /\ dependencies' = st.dependencies
          /\ swept' = st.calls
          /\ reach' = Reach(c)
    /\ value' = [value EXCEPT ![c] = t]
    /\ written' = [written EXCEPT ![c] = Some(t)]
    /\ invoked' = Zero
    /\ evals' = [evals EXCEPT ![c] = 0]
    /\ result' = None
    /\ UNCHANGED <<binding, handle, CURRENT_BINDING, stack, failure>>

\* What sixtyfps_property_set_changed does to the state, the record of the call in `last` apart.
sixtyfps_property_set_changed_effect(c, t) ==
    /\ Idle /\ handle[c]
    /\ LET st == mark_dirty([dirty |-> dirty, dependencies |-> dependencies,
                             calls |-> 0], c)
       IN /\ dirty' = [st.dirty EXCEPT ![c] = FALSE]
          /\ dependencies' = st.dependencies
          /\ swept' = st.calls
          /\ reach' = Reach(c)
    /\ binding' = [binding EXCEPT ![c] = None]
    /\ value' = [value EXCEPT ![c] = t]
    /\ written' = [written EXCEPT ![c] = Some(t)]
    /\ invoked' = Zero
    /\ evals' = [evals EXCEPT ![c] = 0]
    /\ result' = None
    /\ UNCHANGED <<handle, CURRENT_BINDING, stack, failure>>

\* sixtyfps_property_set_changed, after the caller stored t as the value.
sixtyfps_property_set_changed(c, t) ==
    /\ sixtyfps_property_set_changed_effect(c, t)
    /\ last' = [op |-> "sixtyfps_property_set_changed", cell |-> c]

\* What sixtyfps_property_set_binding does to the state, the record of the call in `last` apart.
sixtyfps_property_set_binding_effect(c, b) ==
    /\ Idle /\ handle[c]
    /\ <<c, b>> \in Installs
    /\ \A i \in DOMAIN b.reads : handle[b.reads[i]]
    /\ LET st == mark_dirty([dirty |-> dirty, dependencies |-> dependencies,
                             calls |-> 0], c)
       IN /\ dirty' = st.dirty
          /\ dependencies' = st.dependencies
          /\ swept' = st.calls
          /\ reach' = Reach(c)
    /\ binding' = [binding EXCEPT ![c] = Some(b)]
    /\ written' = [written EXCEPT ![c] = None]
    /\ invoked' = Zero
    /\ evals' = [evals EXCEPT ![c] = 0]
    /\ result' = None
    /\ UNCHANGED <<value, handle, CURRENT_BINDING, stack, failure>>

\* sixtyfps_property_set_binding
sixtyfps_property_set_binding(c, b) ==
    /\ sixtyfps_property_set_binding_effect(c, b)
    /\ last' = [op |-> "sixtyfps_property_set_binding", cell |-> c]

\* Some other property that still has its handle has a binding that reads c.
IsRead(c) ==
    \E d \in Cells \ {c} :
        /\ handle[d] /\ binding[d] # None
        /\ \E i \in DOMAIN Unwrap(binding[d]).reads :
               Unwrap(binding[d]).reads[i] = c

\* sixtyfps_property_drop.  The handle is gone; the PropertyImpl is freed
\* with it unless the thread local still holds a reference to it.
sixtyfps_property_drop(c) ==
    /\ Idle /\ handle[c] /\ ~IsRead(c)
    /\ handle' = [handle EXCEPT ![c] = FALSE]
    /\ IF c \in CURRENT_BINDING
       THEN UNCHANGED <<binding, dependencies, dirty, value>>
       ELSE /\ binding' = [binding EXCEPT ![c] = None]
            /\ dependencies' = [dependencies EXCEPT ![c] = <<>>]
            /\ dirty' = [dirty EXCEPT ![c] = FALSE]
            /\ value' = [value EXCEPT ![c] = 0]
    /\ last' = [op |-> "sixtyfps_property_drop", cell |-> c]
    /\ swept' = 0
    /\ reach' = {}
    /\ written' = [written EXCEPT ![c] = None]
    /\ invoked' = Zero
    /\ evals' = [evals EXCEPT ![c] = 0]
    /\ result' = None
    /\ UNCHANGED <<CURRENT_BINDING, stack, failure>>

\* The properties the installed binding of c reads.
Reads(c) ==
    IF binding[c] = None THEN {}
    ELSE {Unwrap(binding[c]).reads[i] : i \in DOMAIN Unwrap(binding[c]).reads}

RECURSIVE ReadsClosure(_)

ReadsClosure(S) ==
    LET T == S \cup UNION {Reads(d) : d \in S}
    IN IF T = S THEN S ELSE ReadsClosure(T)

\* The properties c reads, directly or through the bindings of others.
TransReads(c) == ReadsClosure(Reads(c))

\* The native interface; a panic ends the run.
Next ==
    \/ \E c \in Cells, t \in Vals : set(c, t) /\ UNCHANGED ghosts
    \/ \E c \in Cells, b \in Bindings :
           set_binding(c, b) /\ UNCHANGED ghosts
    \/ \E c \in Cells : get(c) /\ UNCHANGED ghosts
    \/ evaluate /\ UNCHANGED ghosts
    \/ update_finish /\ UNCHANGED ghosts

Spec == Init /\ [][Next]_vars

\* The interface of the opaque handle.
NextAbi ==
    \/ \E c \in Cells :
           sixtyfps_property_update(c) /\ UNCHANGED ghosts
    \/ \E c \in Cells, t \in Vals :
           sixtyfps_property_set_changed(c, t) /\ UNCHANGED ghosts
    \/ \E c \in Cells, b \in Bindings :
           sixtyfps_property_set_binding(c, b) /\ UNCHANGED ghosts
    \/ evaluate /\ UNCHANGED ghosts
    \/ update_finish /\ UNCHANGED ghosts

SpecAbi == Init /\ [][NextAbi]_vars

\* The interface of the opaque handle, with the handles dropped at any time.
NextDrop ==
    \/ \E c \in Cells :
           /\ sixtyfps_property_update(c)
           /\ swept_from' = [x \in Cells |-> <<>>]
           /\ UNCHANGED <<seen, user_data, traced>>
    \/ \E c \in Cells, t \in Vals :
           /\ sixtyfps_property_set_changed(c, t)
           /\ swept_from' = dependencies
           /\ UNCHANGED <<seen, user_data, traced>>
    \/ \E c \in Cells, b \in Bindings :
           /\ sixtyfps_property_set_binding(c, b)
           /\ swept_from' = dependencies
           /\ UNCHANGED <<seen, user_data, traced>>
    \/ evaluate /\ UNCHANGED ghosts
    \/ update_finish /\ UNCHANGED ghosts
    \/ \E c \in Cells :
           /\ sixtyfps_property_drop(c)
           /\ swept_from' = [x \in Cells |-> <<>>]
           /\ UNCHANGED <<seen, user_data, traced>>

SpecDrop == Init /\ [][NextDrop]_vars

\* Both interfaces on the same properties.
NextBoth == Next \/ NextAbi

SpecBoth == Init /\ [][NextBoth]_vars

\* The two properties whose bindings can close a cycle.
Pair == {"width", "height"}

\* Both interfaces, on the two properties that can close a cycle, on a
\* thread that catches the panics and goes on.
NextUnwind ==
    \/ \E c \in Pair, t \in Vals :
           /\ set(c, t) /\ swept_from' = dependencies
           /\ UNCHANGED <<seen, user_data, traced>>
    \/ \E c \in Pair, b \in Bindings :
           /\ set_binding(c, b) /\ swept_from' = dependencies
           /\ UNCHANGED <<seen, user_data, traced>>
    \/ \E c \in Pair :
           /\ get(c) /\ swept_from' = [x \in Cells |-> <<>>]
           /\ UNCHANGED <<seen, user_data, traced>>
    \/ \E c \in Pair :
           /\ sixtyfps_property_update(c)
           /\ swept_from' = [x \in Cells |-> <<>>]
           /\ UNCHANGED <<seen, user_data, traced>>
    \/ \E c \in Pair, t \in Vals :
           /\ sixtyfps_property_set_changed(c, t)
           /\ swept_from' = dependencies
           /\ UNCHANGED <<seen, user_data, traced>>
    \/ \E c \in Pair, b \in Bindings :
           /\ sixtyfps_property_set_binding(c, b)
           /\ swept_from' = dependencies
           /\ UNCHANGED <<seen, user_data, traced>>
    \/ evaluate /\ UNCHANGED ghosts
    \/ update_finish /\ UNCHANGED ghosts
    \/ recover /\ UNCHANGED ghosts

SpecUnwind == Init /\ [][NextUnwind]_vars

\* user_data after a step on the handle c that installs inst bindings (0 or
\* 1): Drop for CFunctionBinding calls drop_user_data when the last Rc to
\* the binding goes, which is when the PropertyImpl of c stops holding it.
Owned(c, inst) ==
    [user_data EXCEPT ![c] =
        [installed |-> @.installed + inst,
         destroyed |-> @.destroyed +
             IF binding[c] # None /\ (inst = 1 \/ binding'[c] = None)
             THEN 1 ELSE 0]]

\* The interface of the opaque handle on the two properties that can close
\* a cycle, every binding installed with a destructor, on a thread that
\* catches the panics and goes on.
NextOwned ==
    \/ \E c \in Pair :
           sixtyfps_property_update(c) /\ UNCHANGED ghosts
    \/ \E c \in Pair, t \in Vals :
           /\ sixtyfps_property_set_changed(c, t)
           /\ user_data' = Owned(c, 0)
           /\ UNCHANGED <<seen, traced, swept_from>>
    \/ \E c \in Pair, b \in Bindings :
           /\ user_data[c].installed < MaxInstalls
           /\ sixtyfps_property_set_binding(c, b)
           /\ user_data' = Owned(c, 1)
           /\ UNCHANGED <<seen, traced, swept_from>>
    \/ evaluate /\ UNCHANGED ghosts
    \/ update_finish /\ UNCHANGED ghosts
    \/ \E c \in Pair :
           /\ sixtyfps_property_drop(c)
           /\ user_data' = Owned(c, 0)
           /\ UNCHANGED <<seen, traced, swept_from>>
    \/ recover /\ UNCHANGED ghosts

SpecOwned == Init /\ [][NextOwned]_vars

\* The last operation was a read, which returned.
ReadDone ==
    /\ stack = <<>> /\ failure = NoFailure
    /\ last.op \in {"get", "sixtyfps_property_update"}
    /\ result # None

\* seen, with the read that just returned entered as the latest of its
\* property: nothing was written since, no sweep reached the property.
Absorb ==
    IF ReadDone
    THEN [seen EXCEPT ![last.cell] =
              Some([val |-> Unwrap(result), apart |-> TRUE, hit |-> FALSE])]
    ELSE seen

\* seen after a write or bind on x: for every property c read before, whether
\* all writes and binds since its read were on properties other than c and
\* than those c transitively reads (apart), and whether a sweep since then
\* could reach c through dependencies vectors (hit).
AfterSweep(x) ==
    [c \in Cells |->
        IF Absorb[c] = None THEN None
        ELSE LET iv == Unwrap(Absorb[c])
                 apart == iv.apart /\ x \notin ({c} \cup TransReads(c))
                 hit == iv.hit \/ c \in Reach(x)
             IN IF ~apart /\ hit THEN None
                ELSE Some([val |-> iv.val, apart |-> apart, hit |-> hit])]

\* The native interface, with the history of the reads kept in seen.
NextHist ==
    \/ \E c \in Cells, t \in Vals :
           /\ set(c, t) /\ seen' = AfterSweep(c)
           /\ UNCHANGED <<user_data, traced, swept_from>>
    \/ \E c \in Cells, b \in Bindings :
           /\ set_binding(c, b) /\ seen' = AfterSweep(c)
           /\ UNCHANGED <<user_data, traced, swept_from>>
    \/ \E c \in Cells :
           get(c) /\ seen' = Absorb /\ UNCHANGED <<user_data, traced, swept_from>>
    \/ evaluate /\ UNCHANGED ghosts
    \/ update_finish /\ UNCHANGED ghosts

SpecHist == Init /\ [][NextHist]_vars

\* traced after the sweep that a write (is_set) or a bind on c starts: the dependencies of every property the sweep reaches are emptied;
\* a written property has no evaluation any more.
TraceSweep(c, is_set) ==
    [x \in Cells |->
        [by |-> IF x \in Reach(c) THEN {} ELSE traced[x].by,
         of |-> IF is_set /\ x = c THEN {} ELSE traced[x].of]]

\* traced after the step of a read of c by the evaluation of d (d is None for
\* a read by the owner of the component): d has read c, and an evaluation of
\* c that starts has read nothing yet.
TraceRead(c, d) ==
    [x \in Cells |->
        [by |-> IF x = c THEN traced[x].by \cup d ELSE traced[x].by,
         of |-> IF x \in d THEN traced[x].of \cup {c}
                ELSE IF x = c /\ Len(stack') > Len(stack) THEN {}
                ELSE traced[x].of]]

\* The native interface, with the reads of the evaluations kept in traced.
NextTrace ==
    \/ \E c \in Cells, t \in Vals :
           set(c, t) /\ traced' = TraceSweep(c, TRUE)
                     /\ UNCHANGED <<seen, user_data, swept_from>>
    \/ \E c \in Cells, b \in Bindings :
           set_binding(c, b) /\ traced' = TraceSweep(c, FALSE)
                             /\ UNCHANGED <<seen, user_data, swept_from>>
    \/ \E c \in Cells :
           get(c) /\ traced' = TraceRead(c, None)
                  /\ UNCHANGED <<seen, user_data, swept_from>>
    \/ /\ evaluate
       /\ traced' = TraceRead(Unwrap(binding[Top.cell]).reads[Top.idx],
                              Some(Top.cell))
       /\ UNCHANGED <<seen, user_data, swept_from>>
    \/ update_finish /\ UNCHANGED ghosts

SpecTrace == Init /\ [][NextTrace]_vars


-----------------------------------------------------------------------------
(* What the claims speak of *)

\* The binding of c reads c, directly or transitively.
OnCycle(c) == c \in TransReads(c)

\* Evaluating c runs into a cycle of bindings.
ReachesCycle(c) == \E d \in {c} \cup TransReads(c) : OnCycle(d)

RECURSIVE Product(_, _, _)

RECURSIVE FromScratch(_)

\* The value of c computed from the written values alone: the value of an
\* unbound property is the one it holds, the value of a bound one is its
\* closure applied to the values, from scratch, of what it reads.
FromScratch(c) ==
    IF binding[c] = None THEN value[c]
    ELSE Unwrap(binding[c]).k * Product(Unwrap(binding[c]).reads, 1, 1)

Product(rs, i, acc) ==
    IF i > Len(rs) THEN acc
    ELSE Product(rs, i + 1, acc * FromScratch(rs[i]))

\* A top-level read of c has returned.
ReadReturned(c) ==
    /\ stack = <<>> /\ failure = NoFailure
    /\ last.op \in {"get", "sixtyfps_property_update"}
    /\ last.cell = c
    /\ result # None

\* C1: every read returns what evaluating the current binding of the property
\* from scratch, against the current written values, gives (for an unbound
\* property: the value last written), provided the bindings it goes through
\* form no cycle.
C1_ReadIsFromScratch ==
    \A c \in Cells :
        (ReadReturned(c) /\ ~ReachesCycle(c)) => result = Some(FromScratch(c))

\* C1, its case: height written 8, width = 2 * height, area = width; area had
\* been evaluated before, height was written, and the read of area ran both
\* bindings and returned 1 * (2 * 8).
C1_Witness ==
    /\ ReadReturned("area")
    /\ binding["height"] = None /\ value["height"] = 8
    /\ binding["width"] = Some(HeightTimes2)
    /\ binding["area"] = Some(WidthOnly)
    /\ evals["area"] = 2 /\ invoked["area"] = 1 /\ invoked["width"] = 1
    /\ result = Some(16)

\* C2: after a write of v on a property, every read of it returns v until
\* the next write or bind on that property, whatever is written, bound or
\* read on the others in between.
C2_SetGet ==
    \A c \in Cells :
        (ReadReturned(c) /\ written[c] # None) => result = written[c]

\* C2, its case: width was bound and evaluated reading height, then written
\* 4; a later write of height swept the entry width had left in height's
\* dependencies and marked width dirty; the read of width still returns 4.
C2_Witness ==
    /\ ReadReturned("width")
    /\ written["width"] = Some(4)
    /\ dirty["width"]
    /\ result = Some(4)

\* C3: the scenario of properties_simple_test.  With height written, width
\* bound to height * 2 and area bound to width * height, a read of width
\* returns twice the height, a read of height the height, and a read of area
\* the product of the two (16, 8 and 128 for height = 8); with both written,
\* area reads their product (32 for 4 and 8).
C3_SimpleTest ==
    /\ (/\ binding["height"] = None
        /\ binding["width"] = Some(HeightTimes2)
        /\ binding["area"] = Some(WidthTimesHeight))
       => /\ ReadReturned("width") => result = Some(value["height"] * 2)
          /\ ReadReturned("height") => result = Some(value["height"])
          /\ ReadReturned("area")
                 => result = Some(value["height"] * 2 * value["height"])
    /\ (/\ binding["height"] = None
        /\ binding["width"] = None
        /\ binding["area"] = Some(WidthTimesHeight)
        /\ ReadReturned("area"))
       => result = Some(value["width"] * value["height"])

\* C3, its case: area had been evaluated before width was bound, and the read
\* of area after it evaluates both bindings and returns 128.
C3_Witness ==
    /\ ReadReturned("area")
    /\ binding["height"] = None /\ value["height"] = 8
    /\ binding["width"] = Some(HeightTimes2)
    /\ binding["area"] = Some(WidthTimesHeight)
    /\ evals["area"] = 2 /\ invoked["area"] = 1 /\ invoked["width"] = 1
    /\ result = Some(128)

\* C4: when set, set_binding or set_changed on c returns, every live property
\* that was reachable from c through dependencies vectors when it was called
\* is dirty (c itself is clean after set and set_changed), and the vectors
\* the sweep went through are empty: nothing is left to invalidate later.
\* (swept >= 1 in the state one of these operations returns in, which `last`
\* names; reach is what was reachable from c when it was called.)
C4_SweepComplete ==
    swept >= 1 =>
        /\ last.cell \in reach
        /\ \A d \in reach \ {last.cell} : dirty[d]
        /\ \A d \in reach : dependencies[d] = <<>>
        /\ last.op \in {"set", "sixtyfps_property_set_changed"}
               => ~dirty[last.cell]
        /\ last.op \in {"set_binding", "sixtyfps_property_set_binding"}
               => dirty[last.cell]

\* C4, its case: height was written while width (= height * 2) and area
\* (= width) were clean; the sweep called mark_dirty on height, on width and,
\* from width, on area, and both are dirty when set returns.
C4_Witness ==
    /\ last = [op |-> "set", cell |-> "height"]
    /\ binding["width"] = Some(HeightTimes2)
    /\ binding["area"] = Some(WidthOnly)
    /\ evals["width"] >= 1 /\ evals["area"] >= 1
    /\ swept = 3 /\ reach = Cells
    /\ dirty["width"] /\ dirty["area"] /\ ~dirty["height"]

\* C5: set, set_binding and set_changed invoke no binding closure.  When one
\* of them returns no evaluation has run or is running and no property but
\* the one written has another value: the dependents were marked, none was
\* recomputed.  The closure of a property is invoked only by a step of a
\* read (by the caller, or by a closure being evaluated) of that property,
\* which finds it dirty; so a freshly bound property is invoked zero times
\* until it is read.
C5_Lazy ==
    [][/\ swept' >= 1
          => /\ invoked' = Zero
             /\ stack' = <<>>
             /\ \A d \in Cells : evals'[d] <= evals[d]
             /\ \A d \in Cells \ {last'.cell} : value'[d] = value[d]
       /\ \A c \in Cells :
              (evals'[c] > evals[c] \/ invoked'[c] > invoked[c])
                  => /\ last'.op \in {"get", "sixtyfps_property_update"}
                     /\ stack' = Append(stack, stack'[Len(stack')])
                     /\ stack'[Len(stack')].cell = c
                     /\ dirty[c]]_vars

\* C5, its case: width was bound while area, which had been evaluated reading
\* width, was clean: set_binding marked both dirty, invoked neither closure,
\* and the new closure of width has not run.
C5_Witness ==
    /\ last = [op |-> "set_binding", cell |-> "width"]
    /\ binding["width"] = Some(HeightTimes2)
    /\ binding["area"] = Some(WidthTimesHeight)
    /\ swept = 2 /\ reach = {"width", "area"}
    /\ evals["width"] = 0 /\ evals["area"] >= 1
    /\ dirty["width"] /\ dirty["area"]
    /\ invoked = Zero

\* C6 as stated: two consecutive reads of a property, with no write or bind
\* in between on it or on a property it transitively reads, return equal
\* values, and the second does not invoke its binding.
C6_Original ==
    \A c \in Cells :
        (ReadReturned(c) /\ seen[c] # None /\ Unwrap(seen[c]).apart)
            => (result = Some(Unwrap(seen[c]).val) /\ invoked[c] = 0)

\* C6, amended: two consecutive reads of a property, with no write or bind in
\* between on a property from which it was reachable through dependencies
\* vectors, return equal values and invoke its binding at most once in total,
\* never in the second read.  Every write or bind on the property or on one
\* it transitively reads is such a write (no other history is kept in seen).
C6_CleanRead ==
    \A c \in Cells :
        /\ ReadReturned(c) => invoked[c] <= 1
        /\ seen[c] # None => Unwrap(seen[c]).apart
        /\ (ReadReturned(c) /\ seen[c] # None /\ ~Unwrap(seen[c]).hit)
               => (result = Some(Unwrap(seen[c]).val) /\ invoked[c] = 0)

\* C6, its case: area, bound to a constant, was read and evaluated once; width
\* was written, which reaches nothing; the second read of area returns the
\* same value without invoking the closure.
C6_Witness ==
    /\ ReadReturned("area")
    /\ binding["area"] = Some(ConstBinding)
    /\ seen["area"] = Some([val |-> 4, apart |-> TRUE, hit |-> FALSE])
    /\ written["width"] = Some(8)
    /\ dependencies["width"] = <<>>
    /\ evals["area"] = 1 /\ invoked["area"] = 0
    /\ result = Some(4)

\* The step is a call of get (or sixtyfps_property_update) on c: by the owner
\* of the component, or by the closure on top of the stack.
ReadCall(c) ==
    \/ /\ stack = <<>>
       /\ last'.op \in {"get", "sixtyfps_property_update"}
       /\ last'.cell = c
    \/ /\ stack # <<>>
       /\ Top.idx <= Len(Unwrap(binding[Top.cell]).reads)
       /\ Unwrap(binding[Top.cell]).reads[Top.idx] = c

\* C7: during one read, every call of get that finds a dirty bound property
\* invokes its closure, no call that finds a clean one does, and no closure
\* is invoked twice: each dirty bound property the read reaches is evaluated
\* exactly once, along however many paths it is reached.
C7_OncePerRead ==
    [][\A c \in Cells :
          /\ invoked'[c] <= 1
          /\ (ReadCall(c) /\ ~Borrowed(c))
                 => invoked'[c] =
                        (IF stack = <<>> THEN 0 ELSE invoked[c])
                        + (IF dirty[c] /\ binding[c] # None THEN 1 ELSE 0)
          /\ ~ReadCall(c) => (invoked'[c] = invoked[c] \/ invoked'[c] = 0)]_vars

\* C7, its case: height (a constant), width = height * 2 and
\* area = width * height were all dirty; the read of area reached height
\* through width and directly, and invoked each closure once.
C7_Witness ==
    /\ ReadReturned("area")
    /\ binding["height"] = Some(ConstBinding)
    /\ binding["width"] = Some(HeightTimes2)
    /\ binding["area"] = Some(WidthTimesHeight)
    /\ invoked = [c \in Cells |-> 1]
    /\ result = Some(32)

\* C8: once a property is re-bound to a constant, every read of it returns
\* the constant, whatever is written or bound afterwards on the property its
\* former binding read.
C8_RebindConstant ==
    \A c \in Cells :
        (ReadReturned(c) /\ binding[c] = Some(ConstBinding))
            => result = Some(ConstBinding.k)

\* C8, its case: area was bound to a closure reading width and evaluated,
\* then re-bound to the constant and read; width was then written 8, which
\* marked area dirty through the entry its former binding had left in
\* width's dependencies; the read of area evaluated the constant a second
\* time and returned it.
C8_Witness ==
    /\ ReadReturned("area")
    /\ binding["area"] = Some(ConstBinding)
    /\ written["width"] = Some(8)
    /\ evals["area"] = 2 /\ invoked["area"] = 1
    /\ result = Some(4)

\* The cells whose binding is being evaluated, outermost first.
InProgress == [i \in DOMAIN stack |-> stack[i].cell]

\* C9: a read of a property whose binding reads that property, directly or
\* through other bindings, ends in a failure and returns no value; and no
\* property has two evaluations of its binding in progress, so that the
\* recursion is no deeper than there are properties.
C9_CycleAborts ==
    /\ \A i, j \in DOMAIN stack : InProgress[i] = InProgress[j] => i = j
    /\ Len(stack) <= Cardinality(Cells)
    /\ \A c \in Cells :
           (/\ last.op \in {"get", "sixtyfps_property_update"}
            /\ last.cell = c
            /\ OnCycle(c)
            /\ stack = <<>>) => (failure # NoFailure /\ result = None)
    /\ failure # NoFailure => result = None

\* C9, its case: width = 2 * height and height = width; the read of width
\* invoked both bindings once, height's read of width found width's
\* evaluation in progress, and the read ended in a failure without a value.
C9_Witness ==
    /\ binding["width"] = Some(HeightTimes2)
    /\ binding["height"] = Some(WidthOnly)
    /\ last.cell = "width"
    /\ last.op \in {"get", "sixtyfps_property_update"}
    /\ invoked["width"] = 1 /\ invoked["height"] = 1
    /\ failure # NoFailure /\ result = None /\ stack = <<>>

\* C10: every failure of a re-entrant read is the one labelled "Circular
\* dependency in binding evaluation".
C10_LabelledFailure ==
    failure # NoFailure => failure = CircularMsg

\* C11: the destructor of every binding installed on a handle has been
\* called exactly once by the time the handle is dropped, and is not called
\* while the binding is installed on a handle that exists: at every point
\* the calls of drop_user_data on a handle's bindings are as many as the
\* bindings installed on it, less the one a live handle still holds.
C11_DestructorOnce ==
    \A c \in Cells :
        user_data[c].destroyed =
            user_data[c].installed
            - (IF handle[c] /\ binding[c] # None THEN 1 ELSE 0)

\* C12: when a read returns, the property that was read is not dirty,
\* whether it has a binding or not.
C12_ReadClearsDirty ==
    \A c \in Cells : ReadReturned(c) => ~dirty[c]

\* C13: the evaluations nest like a stack on the thread local.  While a
\* binding runs the thread local holds its property; every evaluation keeps,
\* to put it back, the property of the evaluation that called it; and when no
\* read is in progress the thread local is empty.
C13_SlotIsStack ==
    /\ stack # <<>> => CURRENT_BINDING = Some(Top.cell)
    /\ \A i \in DOMAIN stack :
           i > 1 => stack[i].old = Some(stack[i - 1].cell)
    /\ Idle => CURRENT_BINDING = None

\* C14: when a read has ended in the re-entrancy failure, the thread local
\* is back to what it held before the read began: a read by the owner of the
\* component leaves it empty.
C14_SlotRestored ==
    failure # NoFailure => CURRENT_BINDING = None

\* The live entries of the dependencies of x.
Entries(x) ==
    {d \in Cells : Upgrades(d) /\ \E i \in DOMAIN dependencies[x] :
                                     dependencies[x][i] = d}

C16_ReadersAreListed ==
    Idle =>
        \A y \in Cells :
            (handle[y] /\ binding[y] # None /\ ~dirty[y])
                => /\ traced[y].of = Reads(y)
                   /\ \A x \in traced[y].of : y \in Entries(x)

\* C16, its case: width = height * 2 and area = width * height are both
\* evaluated and clean; height lists width and area, width lists area.
C16_Witness ==
    /\ Idle
    /\ binding["width"] = Some(HeightTimes2)
    /\ binding["area"] = Some(WidthTimesHeight)
    /\ ~dirty["width"] /\ ~dirty["area"]
    /\ traced["area"].of = {"width", "height"}
    /\ traced["width"].of = {"height"}
    /\ Entries("height") = {"width", "area"}
    /\ Entries("width") = {"area"}

RECURSIVE LiveEntries(_, _)

\* The entries that upgrade in the vectors deps of the properties of S.
LiveEntries(S, deps) ==
    IF S = {} THEN 0
    ELSE LET x == CHOOSE y \in S : TRUE
         IN Cardinality({i \in DOMAIN deps[x] : Upgrades(deps[x][i])})
            + LiveEntries(S \ {x}, deps)

\* C17: every sweep ends, with as many calls of mark_dirty as the live
\* entries of the vectors it went through, and one for the property it
\* started from: a vector is emptied before the sweep follows its entries,
\* so every entry is followed once, also when the vectors list a property
\* twice or list each other's properties.
C17_SweepTerminates ==
    swept >= 1 =>
        /\ swept = 1 + LiveEntries(reach, swept_from)
        /\ \A x \in reach : dependencies[x] = <<>>

\* C17, its case: width was listed in the dependencies of height and height
\* in those of width when width was written; the sweep called mark_dirty on
\* width, on height and on width again, and ended.
C17_Witness ==
    /\ Idle
    /\ last = [op |-> "set", cell |-> "width"]
    /\ swept_from["width"] = <<"height">>
    /\ swept_from["height"] = <<"width">>
    /\ swept = 3
    /\ dependencies["width"] = <<>> /\ dependencies["height"] = <<>>

\* C18: the two interfaces do the same to the state.  Every step that is a
\* call of set is, the record of which was called apart, a step of
\* sixtyfps_property_set_changed on the same property (with the value stored
\* by the caller), and the other way round; likewise set_binding and
\* sixtyfps_property_set_binding, get and sixtyfps_property_update; and the
\* reads that the closures make decide alike through either interface.
C18_SameEffect ==
    [][LET c == last'.cell
       IN /\ last'.op \in {"set", "sixtyfps_property_set_changed"}
                 => (set_effect(c, value'[c])
                        /\ sixtyfps_property_set_changed_effect(c, value'[c]))
          /\ last'.op \in {"set_binding", "sixtyfps_property_set_binding"}
                 => (set_binding_effect(c, Unwrap(binding'[c]))
                        /\ sixtyfps_property_set_binding_effect(
                               c, Unwrap(binding'[c])))
          /\ (last'.op \in {"get", "sixtyfps_property_update"} /\ Idle)
                 => (get_effect(c) /\ sixtyfps_property_update_effect(c))
          /\ \A d \in Cells :
                 update_outcome(d) = sixtyfps_property_update_outcome(d)]_vars

\* C18, its case: width = height * 2 had been evaluated, by a read through
\* either interface, when height was written through
\* sixtyfps_property_set_changed: the sweep followed the entry the read had
\* pushed and marked width dirty, as set does.
C18_Witness ==
    /\ last = [op |-> "sixtyfps_property_set_changed", cell |-> "height"]
    /\ binding["width"] = Some(HeightTimes2)
    /\ evals["width"] >= 1
    /\ swept = 2 /\ reach = {"width", "height"}
    /\ swept_from["height"] = <<"width">>
    /\ dirty["width"] /\ ~dirty["height"]
    /\ binding["height"] = None /\ value["height"] = 8

\* The PropertyImpl of c has been freed: its handle is dropped and nothing
\* else holds a strong reference to it.
Destroyed(c) == ~Upgrades(c)

\* C19: a sweep over vectors with entries of destroyed properties ends
\* without a failure, leaves every live property of the vector it started
\* from, and every live property reachable from those, dirty, and leaves the
\* destroyed ones as they were freed; and the only reads that fail are those
\* that run into a cycle of bindings, whatever was destroyed before.
C19_DanglingIgnored ==
    /\ \A c \in Cells :
           Destroyed(c) => /\ binding[c] = None /\ dependencies[c] = <<>>
                           /\ ~dirty[c] /\ value[c] = 0
    /\ swept >= 1 =>
           /\ failure = NoFailure
           /\ \A i \in DOMAIN swept_from[last.cell] :
                  LET d == swept_from[last.cell][i]
                  IN (~Destroyed(d) /\ d # last.cell) => dirty[d]
           /\ \A d \in reach \ {last.cell} : dirty[d]
           /\ swept = 1 + LiveEntries(reach, swept_from)
    /\ failure # NoFailure =>
           /\ last.op = "sixtyfps_property_update"
           /\ ReachesCycle(last.cell)

\* C19, its case: width = height * 2 and area = width * height had been
\* evaluated, so that height listed width and area; area was dropped, and
\* height was then written: the sweep skipped the entry of area in the
\* vectors of height and of width, and marked width dirty.
C19_Witness ==
    /\ Idle
    /\ last = [op |-> "sixtyfps_property_set_changed", cell |-> "height"]
    /\ Destroyed("area")
    /\ swept_from["height"] = <<"width", "area">>
    /\ swept_from["width"] = <<"area">>
    /\ swept = 2 /\ reach = {"height", "width"}
    /\ dirty["width"] /\ ~dirty["area"]

\* C20: the value of a property changes only in a step of set or
\* set_changed on that property, or when the evaluation of its own binding
\* returns.  set, set_binding and set_changed on a property leave the value
\* and the binding of every other property as they were, and start no
\* evaluation.  A read of a property that is not dirty changes no value,
\* binding or dirty flag: it pushes the occupant of the thread local, if
\* any, onto the dependencies of the property read, and nothing else.
C20_Frame ==
    [][/\ \A d \in Cells :
              value'[d] # value[d]
                  => \/ /\ stack = <<>>
                        /\ last'.cell = d
                        /\ last'.op \in {"set", "sixtyfps_property_set_changed"}
                     \/ /\ stack # <<>>
                        /\ Top.cell = d
                        /\ Top.idx > Len(Unwrap(binding[d]).reads)
       /\ swept' >= 1
              => /\ \A d \in Cells \ {last'.cell} :
                        value'[d] = value[d] /\ binding'[d] = binding[d]
                 /\ UNCHANGED <<handle, CURRENT_BINDING, stack, failure>>
       /\ \A c \in Cells :
              (ReadCall(c) /\ ~dirty[c] /\ ~Borrowed(c))
                  => /\ UNCHANGED <<value, binding, dirty, CURRENT_BINDING>>
                     /\ dependencies' =
                            IF CURRENT_BINDING = None THEN dependencies
                            ELSE [dependencies EXCEPT
                                      ![c] = Append(@, Unwrap(CURRENT_BINDING))]
      ]_vars

\* C20, its case: the evaluation of area = width * height has read width,
\* which was not dirty: width's closure was not invoked, and area is now
\* listed in the dependencies of width.
C20_Witness ==
    /\ Len(stack) = 1 /\ Top.cell = "area" /\ Top.idx = 2
    /\ binding["area"] = Some(WidthTimesHeight)
    /\ binding["width"] = Some(HeightTimes2)
    /\ ~dirty["width"] /\ invoked["width"] = 0
    /\ \E i \in DOMAIN dependencies["width"] : dependencies["width"][i] = "area"
    /\ CURRENT_BINDING = Some("area")

=============================================================================
